---- MODULE Spec2Model ----
(***************************************************************************)
(* State-machine model of src/cli/k8s_deployment.py: the deployment state  *)
(* file, the per-deployment working directories, and the operator-facing   *)
(* operations start, destroy and cleanup, stepped at every access to the   *)
(* file system or to the state file.                                       *)
(***************************************************************************)
EXTENDS Integers, Sequences, FiniteSets, TLC

\* Python's None, as it is serialised in the state file and in results.
None == "None"

Range(s) == {s[i] : i \in DOMAIN s}

----------------------------------------------------------------------------
(* Enumerations                                                            *)

FULL == "full"
DIR == "dir"
NA == "not-applicable"
CleanUpLevel == {FULL, DIR, NA}

INITIALIZING == "initializing"
PREPARING_ENV == "preparing-env"
INITIALIZED == "initialized"
PRE_REQ_CHECK_IN_PROGRESS == "pre-req-check-in-progress"
PRE_REQ_CHECK_SUCCEEDED == "pre-req-check-succeeded"
PRE_REQ_CHECK_FAILED == "pre-req-check-failed"
PRE_DEPLOYMENT_OPERATIONS_IN_PROGRESS == "pre-deployment-operations-in-progress"
PRE_DEPLOYMENT_OPERATIONS_SUCCEEDED == "pre-deployment-operations-succeeded"
PRE_DEPLOYMENT_OPERATIONS_FAILED == "pre-deployment-operations-failed"
RAY_CLUSTER_DEPLOYMENT_IN_PROGRESS == "ray-cluster-deployment-in-progress"
RAY_CLUSTER_DEPLOYMENT_SUCCEEDED == "ray-cluster-deployment-succeeded"
RAY_CLUSTER_DEPLOYMENT_FAILED == "ray-cluster-deployment-failed"
SYNTHO_UI_DEPLOYMENT_IN_PROGRESS == "syntho-ui-deployment-in-progress"
SYNTHO_UI_DEPLOYMENT_SUCCEEDED == "syntho-ui-deployment-succeeded"
SYNTHO_UI_DEPLOYMENT_FAILED == "syntho-ui-deployment-failed"
COMPLETED == "completed"

\* The members of the enum in declaration order: (label, cleanup level).
DeploymentStatus ==
    << <<INITIALIZING, DIR>>,
       <<PREPARING_ENV, DIR>>,
       <<INITIALIZED, DIR>>,
       <<PRE_REQ_CHECK_IN_PROGRESS, DIR>>,
       <<PRE_REQ_CHECK_SUCCEEDED, DIR>>,
       <<PRE_REQ_CHECK_FAILED, DIR>>,
       <<PRE_DEPLOYMENT_OPERATIONS_IN_PROGRESS, FULL>>,
       <<PRE_DEPLOYMENT_OPERATIONS_SUCCEEDED, FULL>>,
       <<PRE_DEPLOYMENT_OPERATIONS_FAILED, FULL>>,
       <<RAY_CLUSTER_DEPLOYMENT_IN_PROGRESS, FULL>>,
       <<RAY_CLUSTER_DEPLOYMENT_SUCCEEDED, FULL>>,
       <<RAY_CLUSTER_DEPLOYMENT_FAILED, FULL>>,
       <<SYNTHO_UI_DEPLOYMENT_IN_PROGRESS, FULL>>,
       <<SYNTHO_UI_DEPLOYMENT_SUCCEEDED, FULL>>,
       <<SYNTHO_UI_DEPLOYMENT_FAILED, FULL>>,
       <<COMPLETED, NA>> >>

StatusLabels == {m[1] : m \in Range(DeploymentStatus)}

\* DeploymentStatus.cleanup_level, for the member whose label is status.
cleanup_level(status) ==
    (CHOOSE m \in Range(DeploymentStatus) : m[1] = status)[2]

----------------------------------------------------------------------------
(* Inputs the environment supplies                                         *)

\* Kubeconfig files present on the operator's machine: path -> contents.
KubeconfigFiles == ("/home/op/kubeconfig" :> "cluster-a")

\* Values an operator passes as --kubeconfig: literal contents and a path.
KubeconfigContents == {"cluster-a", "cluster-b", "cluster-c"}

Kubeconfigs == KubeconfigContents \cup DOMAIN KubeconfigFiles

Versions == {"1.0.0"}

\* Values datetime.utcnow().isoformat() can yield.
Timestamps == {"2024-01-01T10:00:00"}

\* What a captured child process can print.
Stdouts == {" prod-cluster\n"}
Stderrs == {""}
NonZeroExitCodes == {2}

isfile(path) == path \in DOMAIN KubeconfigFiles

\* hashlib.md5(payload.encode()).hexdigest(), tabulated on the payloads used.
md5(payload) ==
    CASE payload = "cluster-a" -> "0f3d6a5c"
      [] payload = "cluster-b" -> "9b1e77c2"
      [] payload = "cluster-c" -> "5a8f03de"
      [] OTHER -> "e4c2d1aa"

\* str.strip(), tabulated on Stdouts.
strip(s) ==
    CASE s = " prod-cluster\n" -> "prod-cluster"
      [] OTHER -> s

\* generate_deployment_id: the name file_path is not bound in the function,
\* so the branch taken for an existing file raises NameError.
generate_deployment_id(kubeconfig) ==
    IF isfile(kubeconfig)
    THEN [exc |-> "NameError", value |-> None]
    ELSE [exc |-> None, value |-> md5(kubeconfig)]

DeploymentIds == {md5(k) : k \in KubeconfigContents}

----------------------------------------------------------------------------
(* The state file k8s-deployment-state.yaml and the records in it          *)

\* The dict get_deployments_state returns when the file does not exist.
EmptyState == [active_deployment_id |-> None, deployments |-> << >>]

NoStateFile == [exists |-> FALSE, content |-> EmptyState]

\* Mutant of get_deployments_state: the file is never found.
get_deployments_state_default(file) == EmptyState

get_deployments_state(file) ==
    IF file.exists THEN file.content ELSE EmptyState

update_deployments_state(deployments_state) ==
    [exists |-> TRUE, content |-> deployments_state]

\* The record initialize_deployment builds.
new_deployment(deployment_id, version, started_at) ==
    [id |-> deployment_id,
     status |-> INITIALIZING,
     version |-> version,
     started_at |-> started_at,
     finished_at |-> None,
     cluster_name |-> None]

\* Mutant of append_deployment: the record is appended twice.
append_deployment_twice(deployments_state, deployment) ==
    [active_deployment_id |-> deployment.id,
     deployments |-> Append(Append(deployments_state.deployments, deployment), deployment)]

\* initialize_deployment: append the record and point the active id at it.
append_deployment(deployments_state, deployment) ==
    [active_deployment_id |-> deployment.id,
     deployments |-> Append(deployments_state.deployments, deployment)]

\* Mutant of set_state: finished_at is never written.
set_state_without_finished_at(deployments_state, deployment_id, status, is_completed, now) ==
    [deployments_state EXCEPT !.deployments =
        [i \in DOMAIN @ |->
            IF @[i].id = deployment_id
            THEN [@[i] EXCEPT !.status = status]
            ELSE @[i]]]

\* The loop of set_state over the loaded dict.
set_state(deployments_state, deployment_id, status, is_completed, now) ==
    [deployments_state EXCEPT !.deployments =
        [i \in DOMAIN @ |->
            IF @[i].id = deployment_id
            THEN [@[i] EXCEPT !.status = status,
                              !.finished_at = IF is_completed THEN now ELSE @]
            ELSE @[i]]]

\* Mutant of set_cluster_name: the name is written into every record.
set_cluster_name_everywhere(deployments_state, deployment_id, cluster_name) ==
    [deployments_state EXCEPT !.deployments =
        [i \in DOMAIN @ |-> [@[i] EXCEPT !.cluster_name = cluster_name]]]

\* The loop of set_cluster_name over the loaded dict.
set_cluster_name(deployments_state, deployment_id, cluster_name) ==
    [deployments_state EXCEPT !.deployments =
        [i \in DOMAIN @ |->
            IF @[i].id = deployment_id
            THEN [@[i] EXCEPT !.cluster_name = cluster_name]
            ELSE @[i]]]

\* Mutant of remove_deployment: the list that was loaded is written back.
remove_no_deployment(deployments, deployment_id) == deployments

\* The loop of cleanup_with_cleanup_level that rebuilds _deployments.
RECURSIVE remove_deployment(_, _)
remove_deployment(deployments, deployment_id) ==
    IF deployments = << >> THEN << >>
    ELSE IF Head(deployments).id = deployment_id
         THEN remove_deployment(Tail(deployments), deployment_id)
         ELSE << Head(deployments) >>
              \o remove_deployment(Tail(deployments), deployment_id)

\* Mutant of last_deployment_id: index 0 in place of index -1.
first_deployment_id(_deployments) ==
    IF _deployments # << >> THEN _deployments[1].id ELSE None

\* active_deployment_id as cleanup_with_cleanup_level recomputes it.
last_deployment_id(_deployments) ==
    IF _deployments # << >> THEN _deployments[Len(_deployments)].id ELSE None

\* Mutant of cleanup_state: active_deployment_id is left as it was loaded.
cleanup_state_keeping_active(deployments_state, deployment_id) ==
    [active_deployment_id |-> deployments_state.active_deployment_id,
     deployments |-> remove_deployment(deployments_state.deployments, deployment_id)]

cleanup_state(deployments_state, deployment_id) ==
    LET _deployments == remove_deployment(deployments_state.deployments, deployment_id)
    IN  [active_deployment_id |-> last_deployment_id(_deployments),
         deployments |-> _deployments]

\* get_deployment_status after the directory was found: the records with the
\* id, the first of them, and the enum member with its status label.
filtered(deployments_state, deployment_id) ==
    SelectSeq(deployments_state.deployments, LAMBDA d : d.id = deployment_id)

status_member(label) ==
    IF label \in StatusLabels THEN label ELSE None

----------------------------------------------------------------------------
(* The results the functions return                                        *)

DeploymentResult(succeeded, error, deployment_status) ==
    [succeeded |-> succeeded, error |-> error, deployment_status |-> deployment_status]

NoResult == [succeeded |-> FALSE, error |-> None, deployment_status |-> None]

SubprocessResult(script, succeeded, output, exitcode) ==
    [script |-> script, succeeded |-> succeeded, output |-> output, exitcode |-> exitcode]

NoSubprocessResult == SubprocessResult(None, FALSE, None, 0)

\* Mutant of run_script: an interrupted child counts as a success.
run_script_interrupt_succeeds(script, capture_output, ending, stdout, stderr, returncode) ==
    CASE ending = "exit0" ->
            SubprocessResult(script, TRUE,
                             IF capture_output /\ stdout # "" THEN strip(stdout) ELSE "", 0)
      [] ending = "CalledProcessError" ->
            SubprocessResult(script, FALSE,
                             IF capture_output THEN stderr ELSE None, returncode)
      [] ending = "KeyboardInterrupt" -> SubprocessResult(script, TRUE, "", 0)
      [] OTHER -> SubprocessResult(script, FALSE, "", 1)

\* run_script: what it returns for each way subprocess.run can end.
\* stdout and stderr are None unless capture_output is set.
run_script(script, capture_output, ending, stdout, stderr, returncode) ==
    CASE ending = "exit0" ->
            SubprocessResult(script, TRUE,
                             IF capture_output /\ stdout # "" THEN strip(stdout) ELSE "", 0)
      [] ending = "CalledProcessError" ->
            SubprocessResult(script, FALSE,
                             IF capture_output THEN stderr ELSE None, returncode)
      [] ending = "KeyboardInterrupt" -> SubprocessResult(script, FALSE, "", 1)
      [] OTHER -> SubprocessResult(script, FALSE, "", 1)

Endings == {"exit0", "CalledProcessError", "KeyboardInterrupt", "Exception"}

----------------------------------------------------------------------------
(* The operations as programs: one instruction per access to the file      *)
(* system, the state file or a child process                               *)

Instr(kind, status, is_completed, script, capture_output, next, fail, result, returns) ==
    [kind |-> kind, status |-> status, is_completed |-> is_completed,
     script |-> script, capture_output |-> capture_output,
     next |-> next, fail |-> fail, result |-> result, returns |-> returns]

\* set_state(deployment_id, deployments_dir, status, is_completed), then next.
SetState(status, is_completed, next) ==
    Instr("set_state", status, is_completed, None, FALSE, next, None, NoResult, None)

\* run_script(scripts_dir, deployment_dir, script, capture_output); the caller
\* goes on at next when the result succeeded and at fail when it did not.
RunScript(script, capture_output, next, fail) ==
    Instr("run_script", None, FALSE, script, capture_output, next, fail, NoResult, None)

\* The write of result.output into the record's cluster_name, then next.
SetClusterName(next) ==
    Instr("set_cluster_name", None, FALSE, None, FALSE, next, None, NoResult, None)

\* The files prepare_env writes into the working directory, then next.
WriteEnv(next) ==
    Instr("write_env", None, FALSE, None, FALSE, next, None, NoResult, None)

\* return DeploymentResult(...) from start.
Return(result) ==
    Instr("return", None, FALSE, None, FALSE, None, None, result, None)

\* return <value> from cleanup_with_cleanup_level.
ReturnCleanup(value) ==
    Instr("return", None, FALSE, None, FALSE, None, None, NoResult, value)

\* Mutant of prepare_env: the two statuses are written in the other order.
prepare_env_reversed(next) ==
    ("prepare_env" :> SetState(INITIALIZED, FALSE, "prepare_env_files"))
    @@ ("prepare_env_files" :> WriteEnv("prepare_env_initialized"))
    @@ ("prepare_env_initialized" :> SetState(PREPARING_ENV, FALSE, next))

prepare_env(next) ==
    ("prepare_env" :> SetState(PREPARING_ENV, FALSE, "prepare_env_files"))
    @@ ("prepare_env_files" :> WriteEnv("prepare_env_initialized"))
    @@ ("prepare_env_initialized" :> SetState(INITIALIZED, FALSE, next))

pre_requirements_check(next, fail) ==
    ("pre_requirements_check" :>
        SetState(PRE_REQ_CHECK_IN_PROGRESS, FALSE, "pre_requirements_check_run"))
    @@ ("pre_requirements_check_run" :>
        RunScript("pre-requirements-kubernetes.sh", FALSE,
                  "pre_requirements_check_succeeded", "pre_requirements_check_failed"))
    @@ ("pre_requirements_check_succeeded" :>
        SetState(PRE_REQ_CHECK_SUCCEEDED, FALSE, next))
    @@ ("pre_requirements_check_failed" :>
        SetState(PRE_REQ_CHECK_FAILED, FALSE, fail))

\* Mutant of set_cluster_name_steps: a failed lookup ends start.
set_cluster_name_steps_fatal(next) ==
    ("set_cluster_name" :>
        RunScript("get-k8s-cluster-context-name.sh", TRUE,
                  "set_cluster_name_write", "return_pre_requirements_failed"))
    @@ ("set_cluster_name_write" :> SetClusterName(next))

\* set_cluster_name ignores result.succeeded: both endings go on to the write.
set_cluster_name_steps(next) ==
    ("set_cluster_name" :>
        RunScript("get-k8s-cluster-context-name.sh", TRUE,
                  "set_cluster_name_write", "set_cluster_name_write"))
    @@ ("set_cluster_name_write" :> SetClusterName(next))

\* Mutant of configuration_questions: the failure is returned without being
\* persisted.
configuration_questions_unrecorded(next, fail) ==
    ("configuration_questions" :>
        SetState(PRE_DEPLOYMENT_OPERATIONS_IN_PROGRESS, FALSE, "configuration_questions_run"))
    @@ ("configuration_questions_run" :>
        RunScript("configuration-questions.sh", FALSE, next, fail))

configuration_questions(next, fail) ==
    ("configuration_questions" :>
        SetState(PRE_DEPLOYMENT_OPERATIONS_IN_PROGRESS, FALSE, "configuration_questions_run"))
    @@ ("configuration_questions_run" :>
        RunScript("configuration-questions.sh", FALSE, next, "configuration_questions_failed"))
    @@ ("configuration_questions_failed" :>
        SetState(PRE_DEPLOYMENT_OPERATIONS_FAILED, FALSE, fail))

download_syntho_charts_release(next, fail) ==
    ("download_syntho_charts_release" :>
        SetState(PRE_DEPLOYMENT_OPERATIONS_IN_PROGRESS, FALSE,
                 "download_syntho_charts_release_run"))
    @@ ("download_syntho_charts_release_run" :>
        RunScript("download-syntho-charts-release.sh", FALSE, next,
                  "download_syntho_charts_release_failed"))
    @@ ("download_syntho_charts_release_failed" :>
        SetState(PRE_DEPLOYMENT_OPERATIONS_FAILED, FALSE, fail))

major_predeployment_operations(next, fail) ==
    ("major_predeployment_operations" :>
        SetState(PRE_DEPLOYMENT_OPERATIONS_IN_PROGRESS, FALSE,
                 "major_predeployment_operations_run"))
    @@ ("major_predeployment_operations_run" :>
        RunScript("major-pre-deployment-operations.sh", FALSE, next,
                  "major_predeployment_operations_failed"))
    @@ ("major_predeployment_operations_failed" :>
        SetState(PRE_DEPLOYMENT_OPERATIONS_FAILED, FALSE, fail))

start_deployment(next, fail) ==
    ("start_deployment" :>
        SetState(SYNTHO_UI_DEPLOYMENT_IN_PROGRESS, FALSE, "start_deployment_run"))
    @@ ("start_deployment_run" :>
        RunScript("deploy-ray-and-syntho-stack.sh", FALSE,
                  "start_deployment_succeeded", "start_deployment_failed"))
    @@ ("start_deployment_succeeded" :>
        SetState(SYNTHO_UI_DEPLOYMENT_SUCCEEDED, FALSE, next))
    @@ ("start_deployment_failed" :>
        SetState(SYNTHO_UI_DEPLOYMENT_FAILED, FALSE, fail))

\* The DeploymentResult values start returns after a step.
pre_requirements_failed_result ==
    DeploymentResult(FALSE, "Pre requirements check failed", PRE_REQ_CHECK_FAILED)

configuration_failed_result ==
    DeploymentResult(FALSE, "Pre deployment operations failed - Configuration",
                     PRE_DEPLOYMENT_OPERATIONS_FAILED)

download_failed_result ==
    DeploymentResult(FALSE,
                     "Pre deployment operations failed - Downloading syntho-charts release",
                     PRE_DEPLOYMENT_OPERATIONS_FAILED)

major_failed_result ==
    DeploymentResult(FALSE,
        "Pre deployment operations failed - Setting up major pre-deployment components",
        PRE_DEPLOYMENT_OPERATIONS_FAILED)

\* Mutant of deployment_failed_result: the status of the stage before.
deployment_failed_result_copied ==
    DeploymentResult(FALSE, "Syntho UI deployment failed", PRE_DEPLOYMENT_OPERATIONS_FAILED)

deployment_failed_result ==
    DeploymentResult(FALSE, "Syntho UI deployment failed", SYNTHO_UI_DEPLOYMENT_FAILED)

completed_result == DeploymentResult(TRUE, None, COMPLETED)

\* Mutant of existing_result: the test of the status is inverted.
existing_result_inverted(deployment_status) ==
    IF deployment_status # COMPLETED
    THEN DeploymentResult(TRUE, None, deployment_status)
    ELSE DeploymentResult(FALSE, "Deployment remained unfinished", deployment_status)

\* The result start returns at once for a deployment it finds (lines 93 to 107).
existing_result(deployment_status) ==
    IF deployment_status = COMPLETED
    THEN DeploymentResult(TRUE, None, deployment_status)
    ELSE DeploymentResult(FALSE, "Deployment remained unfinished", deployment_status)

\* The body of start from prepare_env on (lines 113 to 178).
start_steps ==
    prepare_env("pre_requirements_check")
    @@ pre_requirements_check("set_cluster_name", "return_pre_requirements_failed")
    @@ ("return_pre_requirements_failed" :> Return(pre_requirements_failed_result))
    @@ set_cluster_name_steps("configuration_questions")
    @@ configuration_questions("download_syntho_charts_release",
                               "return_configuration_failed")
    @@ ("return_configuration_failed" :> Return(configuration_failed_result))
    @@ download_syntho_charts_release("major_predeployment_operations",
                                      "return_download_failed")
    @@ ("return_download_failed" :> Return(download_failed_result))
    @@ major_predeployment_operations("start_deployment", "return_major_failed")
    @@ ("return_major_failed" :> Return(major_failed_result))
    @@ start_deployment("set_completed", "return_deployment_failed")
    @@ ("return_deployment_failed" :> Return(deployment_failed_result))
    @@ ("set_completed" :> SetState(COMPLETED, TRUE, "return_completed"))
    @@ ("return_completed" :> Return(completed_result))

\* Mutant of cleanup_steps: the result of the teardown script is not tested.
cleanup_steps_ignoring_failure ==
    ("cleanup_script" :>
        RunScript("cleanup-kubernetes.sh", FALSE, "rmtree", "rmtree"))
    @@ ("return_cleanup_failed" :> ReturnCleanup("False"))
    @@ ("return_cleanup_done" :> ReturnCleanup("True"))
    @@ ("return_not_applicable" :> ReturnCleanup(None))
    @@ ("return_no_directory" :> ReturnCleanup(None))
    @@ ("return_not_found" :> ReturnCleanup(None))

\* The external teardown of cleanup_with_cleanup_level and its two returns.
cleanup_steps ==
    ("cleanup_script" :>
        RunScript("cleanup-kubernetes.sh", FALSE, "rmtree", "return_cleanup_failed"))
    @@ ("return_cleanup_failed" :> ReturnCleanup("False"))
    @@ ("return_cleanup_done" :> ReturnCleanup("True"))
    @@ ("return_not_applicable" :> ReturnCleanup(None))
    @@ ("return_no_directory" :> ReturnCleanup(None))
    @@ ("return_not_found" :> ReturnCleanup(None))

Program == start_steps @@ cleanup_steps

KindAt(label) ==
    IF label \in DOMAIN Program THEN Program[label].kind ELSE None

----------------------------------------------------------------------------
(* State                                                                   *)

\* Operator invocations that can be in progress.
Procs == {"op1", "op2"}

\* How many operations may be terminated part-way.
MaxKills == 1

\* How many records the state file may hold when a start begins.
MaxDeployments == 3

VARIABLES
    dirs,        \* ids whose working directory <scripts_dir>/deployments/<id> exists
    files,       \* <<id, name>>: the files prepare_env wrote into a working directory
    state_file,  \* k8s-deployment-state.yaml: [exists, content]
    pc,          \* per invocation: the instruction it is at, or "idle"
    call,        \* per invocation: the operation in progress and its arguments
    loc,         \* per invocation: its local variables
    hist,        \* per invocation: what the operation in progress did so far
    last_start,  \* the kubeconfig of the start that was the last operation to
                 \* end, when it ended by returning; None otherwise
    kills,       \* how many operations were terminated part-way
    raced        \* whether an operation ever began while another was in progress

vars == <<dirs, files, state_file, pc, call, loc, hist, last_start, kills, raced>>

NoCall == [op |-> None, kubeconfig |-> None, version |-> None,
           deployment_id |-> None, cleanup_level |-> None]

\* existing: the DeploymentResult start returns for a deployment it found.
NoLocals == [loaded |-> FALSE, deployments_state |-> EmptyState,
             started_at |-> None, result |-> NoSubprocessResult,
             existing |-> NoResult]

\* What an operation did since it began. invoked: the scripts it ran, with
\* their success; before: the file system and state file as it began;
\* follows: the kubeconfig of the start that returned right before it began;
\* ending: the way the child process of the last script ended.
NoHistory == [invoked |-> << >>, last_run |-> NoSubprocessResult, ending |-> None,
              writes |-> 0,
              removed |-> FALSE, created |-> FALSE, follows |-> None,
              before |-> [dirs |-> {}, state_file |-> NoStateFile]]

Begun == [NoHistory EXCEPT !.follows = last_start,
                           !.before = [dirs |-> dirs, state_file |-> state_file]]

\* p begins an operation, possibly while another invocation is in progress.
Begins(p) ==
    /\ hist' = [hist EXCEPT ![p] = Begun]
    /\ raced' = (raced \/ \E q \in Procs \ {p} : pc[q] # "idle")

Init ==
    /\ dirs = {}
    /\ files = {}
    /\ state_file = NoStateFile
    /\ pc = [p \in Procs |-> "idle"]
    /\ call = [p \in Procs |-> NoCall]
    /\ loc = [p \in Procs |-> NoLocals]
    /\ hist = [p \in Procs |-> NoHistory]
    /\ last_start = None
    /\ kills = 0
    /\ raced = FALSE

\* The operation of p ends, by a return or by an exception.
Ends(p, returned_start) ==
    /\ pc' = [pc EXCEPT ![p] = "idle"]
    /\ call' = [call EXCEPT ![p] = NoCall]
    /\ loc' = [loc EXCEPT ![p] = NoLocals]
    /\ hist' = [hist EXCEPT ![p] = NoHistory]
    /\ last_start' = returned_start
    /\ kills' = kills
    /\ raced' = raced

Goes(p, label) == pc' = [pc EXCEPT ![p] = label]

\* The value an operation at a return statement is about to return.
ReturnValue(p) ==
    IF pc[p] = "return_existing" THEN loc[p].existing ELSE Program[pc[p]].result

Returning(p) == pc[p] = "return_existing" \/ KindAt(pc[p]) = "return"

----------------------------------------------------------------------------
(* start                                                                   *)

\* start is called: its arguments are bound (lines 80 to 88).
start(p) ==
    /\ pc[p] = "idle"
    /\ \E kubeconfig \in Kubeconfigs, version \in Versions :
        /\ \/ generate_deployment_id(kubeconfig).value \in dirs
           \/ Len(get_deployments_state(state_file).deployments) < MaxDeployments
        /\ call' = [call EXCEPT ![p] =
                [op |-> "start", kubeconfig |-> kubeconfig, version |-> version,
                 deployment_id |-> None, cleanup_level |-> None]]
    /\ Begins(p)
    /\ Goes(p, "generate_deployment_id")
    /\ UNCHANGED <<dirs, files, state_file, loc, last_start, kills>>

\* start, lines 89 to 92, and get_deployment_status up to its test of the
\* working directory (line 298). An exception of generate_deployment_id
\* leaves start at once.
start_generate_deployment_id(p) ==
    /\ pc[p] = "generate_deployment_id"
    /\ LET gen == generate_deployment_id(call[p].kubeconfig)
       IN  IF gen.exc # None
           THEN Ends(p, None)
           ELSE /\ call' = [call EXCEPT ![p].deployment_id = gen.value]
                /\ Goes(p, IF gen.value \in dirs THEN "get_deployment_status"
                                                  ELSE "initialize_deployment")
                /\ UNCHANGED <<loc, hist, last_start, kills, raced>>
    /\ UNCHANGED <<dirs, files, state_file>>

\* get_deployment_status, lines 302 to 308, and the test of its result in
\* start, lines 93 to 107. filtered[0] raises IndexError on an empty list.
get_deployment_status(p) ==
    /\ pc[p] = "get_deployment_status"
    /\ LET found == filtered(get_deployments_state(state_file), call[p].deployment_id)
       IN  IF found = << >>
           THEN Ends(p, None)
           ELSE LET deployment_status == status_member(found[1].status)
                IN  /\ IF deployment_status = None
                       THEN Goes(p, "initialize_deployment") /\ loc' = loc
                       ELSE /\ Goes(p, "return_existing")
                            /\ loc' = [loc EXCEPT ![p].existing =
                                            existing_result(deployment_status)]
                    /\ UNCHANGED <<call, hist, last_start, kills, raced>>
    /\ UNCHANGED <<dirs, files, state_file>>

\* initialize_deployment, lines 329 to 331.
initialize_deployment_load(p) ==
    /\ pc[p] = "initialize_deployment"
    /\ \E now \in Timestamps :
        loc' = [loc EXCEPT ![p].deployments_state = get_deployments_state(state_file),
                           ![p].started_at = now]
    /\ Goes(p, "makedirs")
    /\ UNCHANGED <<dirs, files, state_file, call, hist, last_start, kills, raced>>

\* initialize_deployment, line 332: os.makedirs raises FileExistsError when
\* the directory exists.
initialize_deployment_makedirs(p) ==
    /\ pc[p] = "makedirs"
    /\ IF call[p].deployment_id \in dirs
       THEN /\ Ends(p, None)
            /\ UNCHANGED dirs
       ELSE /\ dirs' = dirs \cup {call[p].deployment_id}
            /\ Goes(p, "initialize_save")
            /\ UNCHANGED <<call, loc, hist, last_start, kills, raced>>
    /\ UNCHANGED <<files, state_file>>

\* initialize_deployment, lines 336 to 347.
initialize_deployment_save(p) ==
    /\ pc[p] = "initialize_save"
    /\ state_file' = update_deployments_state(
            append_deployment(loc[p].deployments_state,
                new_deployment(call[p].deployment_id, call[p].version, loc[p].started_at)))
    /\ hist' = [hist EXCEPT ![p].writes = @ + 1, ![p].created = TRUE]
    /\ Goes(p, "prepare_env")
    /\ UNCHANGED <<dirs, files, call, loc, last_start, kills, raced>>

\* set_state, line 401.
set_state_load(p) ==
    /\ KindAt(pc[p]) = "set_state"
    /\ ~loc[p].loaded
    /\ loc' = [loc EXCEPT ![p].loaded = TRUE,
                          ![p].deployments_state = get_deployments_state(state_file)]
    /\ UNCHANGED <<dirs, files, state_file, pc, call, hist, last_start, kills, raced>>

\* set_state, lines 402 to 409.
set_state_save(p) ==
    /\ KindAt(pc[p]) = "set_state"
    /\ loc[p].loaded
    /\ LET i == Program[pc[p]]
       IN  /\ \E now \in (IF i.is_completed THEN Timestamps ELSE {None}) :
                state_file' = update_deployments_state(
                    set_state(loc[p].deployments_state, call[p].deployment_id,
                              i.status, i.is_completed, now))
           /\ Goes(p, i.next)
    /\ loc' = [loc EXCEPT ![p].loaded = FALSE, ![p].deployments_state = EmptyState]
    /\ hist' = [hist EXCEPT ![p].writes = @ + 1]
    /\ UNCHANGED <<dirs, files, call, last_start, kills, raced>>

\* prepare_env, lines 369 to 392: os.makedirs of <deployment_dir>/.kube makes
\* the missing parents too.
prepare_env_files(p) ==
    /\ KindAt(pc[p]) = "write_env"
    /\ dirs' = dirs \cup {call[p].deployment_id}
    /\ files' = files \cup {<<call[p].deployment_id, ".kube/config">>,
                            <<call[p].deployment_id, ".env">>}
    /\ Goes(p, Program[pc[p]].next)
    /\ UNCHANGED <<state_file, call, loc, hist, last_start, kills, raced>>

\* One call of run_script, lines 192 to 219, with the way the child ends.
run_script_call(p) ==
    /\ KindAt(pc[p]) = "run_script"
    /\ LET i == Program[pc[p]]
       IN  \E ending \in Endings,
              stdout \in (IF i.capture_output THEN Stdouts ELSE {None}),
              stderr \in (IF i.capture_output THEN Stderrs ELSE {None}),
              returncode \in NonZeroExitCodes :
                LET result == run_script(i.script, i.capture_output, ending,
                                         stdout, stderr, returncode)
                IN  /\ loc' = [loc EXCEPT ![p].result = result]
                    /\ hist' = [hist EXCEPT ![p].invoked = Append(@,
                                                [script |-> i.script,
                                                 succeeded |-> result.succeeded]),
                                            ![p].last_run = result,
                                            ![p].ending = ending]
                    /\ Goes(p, IF result.succeeded THEN i.next ELSE i.fail)
    /\ UNCHANGED <<dirs, files, state_file, call, last_start, kills, raced>>

\* set_cluster_name, line 457.
set_cluster_name_load(p) ==
    /\ KindAt(pc[p]) = "set_cluster_name"
    /\ ~loc[p].loaded
    /\ loc' = [loc EXCEPT ![p].loaded = TRUE,
                          ![p].deployments_state = get_deployments_state(state_file)]
    /\ UNCHANGED <<dirs, files, state_file, pc, call, hist, last_start, kills, raced>>

\* set_cluster_name, lines 455 and 458 to 462.
set_cluster_name_save(p) ==
    /\ KindAt(pc[p]) = "set_cluster_name"
    /\ loc[p].loaded
    /\ state_file' = update_deployments_state(
            set_cluster_name(loc[p].deployments_state, call[p].deployment_id,
                             loc[p].result.output))
    /\ Goes(p, Program[pc[p]].next)
    /\ loc' = [loc EXCEPT ![p].loaded = FALSE, ![p].deployments_state = EmptyState]
    /\ hist' = [hist EXCEPT ![p].writes = @ + 1]
    /\ UNCHANGED <<dirs, files, call, last_start, kills, raced>>

\* A return statement of start, destroy or cleanup_with_cleanup_level.
return(p) ==
    /\ Returning(p)
    /\ Ends(p, IF call[p].op = "start" THEN call[p].kubeconfig ELSE None)
    /\ UNCHANGED <<dirs, files, state_file>>

----------------------------------------------------------------------------
(* destroy and cleanup                                                     *)

\* Mutant of destroy: the level passed on is DIR.
destroy_directory_only(p) ==
    /\ pc[p] = "idle"
    /\ \E deployment_id \in DeploymentIds :
        /\ call' = [call EXCEPT ![p] =
                [op |-> "destroy", kubeconfig |-> None, version |-> None,
                 deployment_id |-> deployment_id, cleanup_level |-> DIR]]
        /\ Goes(p, IF deployment_id \notin dirs THEN "return_not_found"
                                                 ELSE "cleanup_with_cleanup_level")
    /\ Begins(p)
    /\ UNCHANGED <<dirs, files, state_file, loc, last_start, kills>>

\* Mutant of destroy: the teardown is entered whether the directory exists or not.
destroy_unconditional(p) ==
    /\ pc[p] = "idle"
    /\ \E deployment_id \in DeploymentIds :
        call' = [call EXCEPT ![p] =
                [op |-> "destroy", kubeconfig |-> None, version |-> None,
                 deployment_id |-> deployment_id, cleanup_level |-> FULL]]
    /\ Goes(p, "cleanup_script")
    /\ Begins(p)
    /\ UNCHANGED <<dirs, files, state_file, loc, last_start, kills>>

\* destroy, lines 265 to 272: the test of the working directory, and the call
\* of cleanup_with_cleanup_level at CleanUpLevel.FULL.
destroy(p) ==
    /\ pc[p] = "idle"
    /\ \E deployment_id \in DeploymentIds :
        /\ call' = [call EXCEPT ![p] =
                [op |-> "destroy", kubeconfig |-> None, version |-> None,
                 deployment_id |-> deployment_id, cleanup_level |-> FULL]]
        /\ Goes(p, IF deployment_id \notin dirs THEN "return_not_found"
                                                 ELSE "cleanup_with_cleanup_level")
    /\ Begins(p)
    /\ UNCHANGED <<dirs, files, state_file, loc, last_start, kills>>

\* cleanup, lines 223 and 224: the level is the one attached to the status.
cleanup(p) ==
    /\ pc[p] = "idle"
    /\ \E deployment_id \in DeploymentIds, status \in StatusLabels :
        call' = [call EXCEPT ![p] =
                [op |-> "cleanup", kubeconfig |-> None, version |-> None,
                 deployment_id |-> deployment_id,
                 cleanup_level |-> cleanup_level(status)]]
    /\ Goes(p, "cleanup_with_cleanup_level")
    /\ Begins(p)
    /\ UNCHANGED <<dirs, files, state_file, loc, last_start, kills>>

\* Mutant of cleanup_with_cleanup_level: the level NA is not tested.
cleanup_with_cleanup_level_without_na(p) ==
    /\ pc[p] = "cleanup_with_cleanup_level"
    /\ Goes(p, IF call[p].deployment_id \notin dirs THEN "return_no_directory"
               ELSE IF call[p].cleanup_level = FULL THEN "cleanup_script"
               ELSE "rmtree")
    /\ UNCHANGED <<dirs, files, state_file, call, loc, hist, last_start, kills, raced>>

\* cleanup_with_cleanup_level, lines 228 to 237: the two bare returns and the
\* choice between the external teardown and the removal of the directory.
cleanup_with_cleanup_level(p) ==
    /\ pc[p] = "cleanup_with_cleanup_level"
    /\ Goes(p, IF call[p].cleanup_level = NA THEN "return_not_applicable"
               ELSE IF call[p].deployment_id \notin dirs THEN "return_no_directory"
               ELSE IF call[p].cleanup_level = FULL THEN "cleanup_script"
               ELSE "rmtree")
    /\ UNCHANGED <<dirs, files, state_file, call, loc, hist, last_start, kills, raced>>

\* cleanup_with_cleanup_level, line 243: shutil.rmtree raises
\* FileNotFoundError when the directory is not there.
cleanup_rmtree(p) ==
    /\ pc[p] = "rmtree"
    /\ IF call[p].deployment_id \notin dirs
       THEN /\ Ends(p, None)
            /\ UNCHANGED <<dirs, files>>
       ELSE /\ dirs' = dirs \ {call[p].deployment_id}
            /\ files' = {f \in files : f[1] # call[p].deployment_id}
            /\ hist' = [hist EXCEPT ![p].removed = TRUE]
            /\ Goes(p, "cleanup_load")
            /\ UNCHANGED <<call, loc, last_start, kills, raced>>
    /\ UNCHANGED state_file

\* cleanup_with_cleanup_level, line 245.
cleanup_load(p) ==
    /\ pc[p] = "cleanup_load"
    /\ loc' = [loc EXCEPT ![p].loaded = TRUE,
                          ![p].deployments_state = get_deployments_state(state_file)]
    /\ Goes(p, "cleanup_save")
    /\ UNCHANGED <<dirs, files, state_file, call, hist, last_start, kills, raced>>

\* cleanup_with_cleanup_level, lines 246 to 259.
cleanup_save(p) ==
    /\ pc[p] = "cleanup_save"
    /\ state_file' = update_deployments_state(
            cleanup_state(loc[p].deployments_state, call[p].deployment_id))
    /\ loc' = [loc EXCEPT ![p].loaded = FALSE, ![p].deployments_state = EmptyState]
    /\ hist' = [hist EXCEPT ![p].writes = @ + 1]
    /\ Goes(p, "return_cleanup_done")
    /\ UNCHANGED <<dirs, files, call, last_start, kills, raced>>

----------------------------------------------------------------------------
(* Process termination                                                     *)

\* The process running the operation is terminated between two of its steps
\* (a kill, or an interruption outside run_script): what it wrote stays.
Terminate(p) ==
    /\ pc[p] # "idle"
    /\ kills < MaxKills
    /\ pc' = [pc EXCEPT ![p] = "idle"]
    /\ call' = [call EXCEPT ![p] = NoCall]
    /\ loc' = [loc EXCEPT ![p] = NoLocals]
    /\ hist' = [hist EXCEPT ![p] = NoHistory]
    /\ last_start' = None
    /\ kills' = kills + 1
    /\ raced' = raced
    /\ UNCHANGED <<dirs, files, state_file>>

----------------------------------------------------------------------------
(* Specifications                                                          *)

\* A step of start or of destroy.
Step(p) ==
    \/ start(p)
    \/ start_generate_deployment_id(p)
    \/ get_deployment_status(p)
    \/ initialize_deployment_load(p)
    \/ initialize_deployment_makedirs(p)
    \/ initialize_deployment_save(p)
    \/ set_state_load(p)
    \/ set_state_save(p)
    \/ prepare_env_files(p)
    \/ run_script_call(p)
    \/ set_cluster_name_load(p)
    \/ set_cluster_name_save(p)
    \/ return(p)
    \/ destroy(p)
    \/ cleanup_with_cleanup_level(p)
    \/ cleanup_rmtree(p)
    \/ cleanup_load(p)
    \/ cleanup_save(p)

\* A single operator whose operations (start, destroy, cleanup) all run to
\* their end.
Next == Step("op1") \/ cleanup("op1")

Spec == Init /\ [][Next]_vars

\* A single operator whose start and destroy operations can be terminated
\* part-way.
NextKill == Step("op1") \/ Terminate("op1")

SpecKill == Init /\ [][NextKill]_vars

\* The operations of p concern the deployment of kubeconfig "cluster-a".
OnOneIdentity(p) ==
    /\ call'[p].kubeconfig \in {None, "cluster-a"}
    /\ call'[p].deployment_id \in {None, md5("cluster-a")}

\* Operations that follow one another, until an invocation begins while the
\* other is in progress: with no lock, the steps of the two interleave in every
\* order. Nothing begins after the two have overlapped.
NextRace ==
    \E p \in Procs :
        /\ pc[p] = "idle" => ~raced
        /\ Step(p)
        /\ OnOneIdentity(p)

SpecRace == Init /\ [][NextRace]_vars

----------------------------------------------------------------------------
(* Properties                                                              *)

\* The state file as a reader finds it, and the records of one identity.
File == get_deployments_state(state_file)

Records(deployment_id) == filtered(File, deployment_id)

HasRecord(deployment_id) == Records(deployment_id) # << >>

AllIdle == \A p \in Procs : pc[p] = "idle"

\* The scripts whose failure ends start, with the status start persists then.
FailedVariant ==
    ("pre-requirements-kubernetes.sh" :> PRE_REQ_CHECK_FAILED)
    @@ ("configuration-questions.sh" :> PRE_DEPLOYMENT_OPERATIONS_FAILED)
    @@ ("download-syntho-charts-release.sh" :> PRE_DEPLOYMENT_OPERATIONS_FAILED)
    @@ ("major-pre-deployment-operations.sh" :> PRE_DEPLOYMENT_OPERATIONS_FAILED)
    @@ ("deploy-ray-and-syntho-stack.sh" :> SYNTHO_UI_DEPLOYMENT_FAILED)

FatalScripts == DOMAIN FailedVariant

FailedStatuses == {PRE_REQ_CHECK_FAILED, PRE_DEPLOYMENT_OPERATIONS_FAILED,
                   SYNTHO_UI_DEPLOYMENT_FAILED}

\* p runs a start that began right after a start with the same kubeconfig
\* had returned.
SecondStart(p) ==
    /\ call[p].op = "start"
    /\ hist[p].follows = call[p].kubeconfig

\* p runs a start in which a fatal script has failed.
FatalStepFailed(p) ==
    /\ call[p].op = "start"
    /\ hist[p].last_run.script \in FatalScripts
    /\ ~hist[p].last_run.succeeded

\* C1: a start that follows a returned start with the same kubeconfig runs no
\* script and writes nothing to the state file; it finds the record, and it
\* returns success when the persisted status is completed and otherwise the
\* failure "Deployment remained unfinished" carrying the persisted status.
C1_SecondStartOnlyReports ==
    \A p \in Procs :
        (SecondStart(p) /\ pc[p] # "idle") =>
            /\ pc[p] \in {"generate_deployment_id", "get_deployment_status",
                         "return_existing"}
            /\ hist[p].invoked = << >>
            /\ hist[p].writes = 0
            /\ state_file = hist[p].before.state_file
            /\ pc[p] # "generate_deployment_id" => HasRecord(call[p].deployment_id)
            /\ pc[p] = "return_existing" =>
                LET left == Records(call[p].deployment_id)[1].status
                IN  ReturnValue(p) =
                        IF left = COMPLETED
                        THEN DeploymentResult(TRUE, None, COMPLETED)
                        ELSE DeploymentResult(FALSE, "Deployment remained unfinished", left)

\* C1 witness: a second start about to return the unfinished result.
C1_Witness ==
    \E p \in Procs :
        /\ SecondStart(p)
        /\ pc[p] = "return_existing"
        /\ ~ReturnValue(p).succeeded
        /\ ReturnValue(p).deployment_status = PRE_DEPLOYMENT_OPERATIONS_FAILED

\* C2: the state file holds at most one record per deployment identity, also
\* after operations that were terminated part-way.
C2_AtMostOneRecordPerIdentity ==
    \A deployment_id \in DeploymentIds : Len(Records(deployment_id)) <= 1

\* C3: when start returns after a fatal script failed, the record of the
\* deployment has the failed status of the stage that script belongs to, and
\* its finished_at is still None.
C3_FailedStatusPersisted ==
    \A p \in Procs :
        (FatalStepFailed(p) /\ Returning(p)) =>
            /\ HasRecord(call[p].deployment_id)
            /\ \A r \in Range(Records(call[p].deployment_id)) :
                /\ r.status = FailedVariant[hist[p].last_run.script]
                /\ r.finished_at = None

\* C3 witness: start about to return after the major pre-deployment script failed.
C3_Witness ==
    \E p \in Procs :
        /\ FatalStepFailed(p)
        /\ Returning(p)
        /\ hist[p].last_run.script = "major-pre-deployment-operations.sh"

\* C4: once the un-provisioning script has failed, cleanup_with_cleanup_level
\* only returns False: the working directory is still there and the directories
\* and the state file are as they were when the operation began.
C4_FailedTeardownChangesNothing ==
    \A p \in Procs :
        (/\ call[p].op \in {"destroy", "cleanup"}
         /\ hist[p].last_run.script = "cleanup-kubernetes.sh"
         /\ ~hist[p].last_run.succeeded) =>
            /\ pc[p] = "return_cleanup_failed"
            /\ Program[pc[p]].returns = "False"
            /\ call[p].deployment_id \in dirs
            /\ dirs = hist[p].before.dirs
            /\ state_file = hist[p].before.state_file

\* C4 witness: a destroy whose un-provisioning script failed, on a deployment
\* that has a record.
C4_Witness ==
    \E p \in Procs :
        /\ call[p].op = "destroy"
        /\ pc[p] = "return_cleanup_failed"
        /\ HasRecord(call[p].deployment_id)

\* C5: when cleanup_with_cleanup_level is about to return True for deployment
\* i, the directory of i is gone, deployments is what it was without the
\* records of i, in the same order, and active_deployment_id is the id of the
\* last record left, or None when none is left.
C5_CleanupRemovesOnlyItsRecord ==
    \A p \in Procs :
        pc[p] = "return_cleanup_done" =>
            LET was == get_deployments_state(hist[p].before.state_file).deployments
                left == SelectSeq(was, LAMBDA d : d.id # call[p].deployment_id)
            IN  /\ call[p].deployment_id \notin dirs
                /\ ~HasRecord(call[p].deployment_id)
                /\ File.deployments = left
                /\ File.active_deployment_id =
                        IF left = << >> THEN None ELSE left[Len(left)].id
                /\ (Len(was) = 1 /\ was[1].id = call[p].deployment_id) =>
                        File = EmptyState

\* C5 witness: a cleanup that removed the last of three records, so that two
\* remain and the active id moved to the second.
C5_Witness ==
    \E p \in Procs :
        /\ pc[p] = "return_cleanup_done"
        /\ Len(get_deployments_state(hist[p].before.state_file).deployments) = 3
        /\ hist[p].before.state_file.content.deployments[3].id = call[p].deployment_id
        /\ Len(File.deployments) = 2

\* C6: active_deployment_id is None or the id of a record in deployments.
C6_ActiveIdRefersToRecord ==
    \/ File.active_deployment_id = None
    \/ HasRecord(File.active_deployment_id)

\* C6 witness: a cleanup has rewritten the file and a record is still active.
C6_Witness ==
    \E p \in Procs :
        /\ pc[p] = "return_cleanup_done"
        /\ File.active_deployment_id # None

\* C7: between operations that all ran to their end, a working directory
\* exists exactly for the identities that have a record.
C7_DirectoryIffRecord ==
    AllIdle => \A deployment_id \in DeploymentIds :
                    deployment_id \in dirs <=> HasRecord(deployment_id)

\* C7 witness: between operations, a completed and a failed deployment exist,
\* each with its working directory and its record.
C7_Witness ==
    /\ AllIdle
    /\ Cardinality(dirs) = 2
    /\ Len(File.deployments) = 2
    /\ File.deployments[1].status = COMPLETED
    /\ File.deployments[2].status = PRE_REQ_CHECK_FAILED

\* C8: a start that created its record and in which every script succeeded
\* returns succeeded=True with the record completed, finished_at set and the
\* working directory present; and in every state the finished_at of a record
\* is set exactly when its status is completed.
C8_CompletedIffFinished ==
    /\ \A r \in Range(File.deployments) :
            r.finished_at # None <=> r.status = COMPLETED
    /\ \A p \in Procs :
        (/\ call[p].op = "start"
         /\ Returning(p)
         /\ hist[p].created
         /\ \A i \in DOMAIN hist[p].invoked : hist[p].invoked[i].succeeded) =>
            /\ ReturnValue(p).succeeded
            /\ call[p].deployment_id \in dirs
            /\ HasRecord(call[p].deployment_id)
            /\ \A r \in Range(Records(call[p].deployment_id)) :
                    r.status = COMPLETED /\ r.finished_at # None

\* C8 witness: a start that ran all six scripts successfully is about to return.
C8_Witness ==
    \E p \in Procs :
        /\ call[p].op = "start"
        /\ Returning(p)
        /\ hist[p].created
        /\ Len(hist[p].invoked) = 6
        /\ \A i \in DOMAIN hist[p].invoked : hist[p].invoked[i].succeeded

\* C9: when a start that created its record returns a failure, the working
\* directory and the record are there; and a working directory or a record
\* goes away only in a step of a destroy or cleanup of that identity.
C9_FailureAtReturn ==
    \A p \in Procs :
        (/\ call[p].op = "start"
         /\ Returning(p)
         /\ hist[p].created
         /\ ~ReturnValue(p).succeeded) =>
            /\ call[p].deployment_id \in dirs
            /\ HasRecord(call[p].deployment_id)

C9_RemovedOnlyByCleanup ==
    \A deployment_id \in DeploymentIds :
        (\/ deployment_id \in dirs /\ deployment_id \notin dirs'
         \/ HasRecord(deployment_id) /\ ~HasRecord(deployment_id)') =>
            \E p \in Procs :
                /\ call[p].op \in {"destroy", "cleanup"}
                /\ call[p].deployment_id = deployment_id

C9_FailedStartRemovesNothing ==
    [](C9_FailureAtReturn) /\ [][C9_RemovedOnlyByCleanup]_vars

\* C9 witness: a start that created its record is about to return the
\* pre-requirement failure.
C9_Witness ==
    \E p \in Procs :
        /\ call[p].op = "start"
        /\ hist[p].created
        /\ pc[p] = "return_pre_requirements_failed"

\* C10: when start is about to return, succeeded is True exactly when the
\* persisted status is completed, the deployment_status returned is the
\* persisted one, and a failure of a start that created its record carries
\* one of the three failed statuses.
C10_ResultMatchesPersistedStatus ==
    \A p \in Procs :
        (call[p].op = "start" /\ Returning(p)) =>
            /\ HasRecord(call[p].deployment_id)
            /\ \A r \in Range(Records(call[p].deployment_id)) :
                /\ ReturnValue(p).deployment_status = r.status
                /\ ReturnValue(p).succeeded <=> r.status = COMPLETED
            /\ (~ReturnValue(p).succeeded /\ hist[p].created) =>
                    ReturnValue(p).deployment_status \in FailedStatuses

\* C10 witness: start about to return the failure of the final deployment.
C10_Witness ==
    \E p \in Procs :
        /\ call[p].op = "start"
        /\ pc[p] = "return_deployment_failed"

\* C11: a destroy of an identity whose working directory does not exist
\* returns at once: it runs no script, raises nothing, and leaves the
\* directories and the state file as they were, also when the state file
\* holds a record of that identity.
C11_DestroyWithoutDirectoryIsNoOp ==
    \A p \in Procs :
        (/\ call[p].op = "destroy"
         /\ call[p].deployment_id \notin hist[p].before.dirs) =>
            /\ pc[p] = "return_not_found"
            /\ Program[pc[p]].returns = None
            /\ hist[p].invoked = << >>
            /\ hist[p].writes = 0
            /\ dirs = hist[p].before.dirs
            /\ state_file = hist[p].before.state_file

\* C11 witness: a destroy about to return for an identity that has a record
\* and no working directory.
C11_Witness ==
    \E p \in Procs :
        /\ call[p].op = "destroy"
        /\ pc[p] = "return_not_found"
        /\ call[p].deployment_id \notin dirs
        /\ HasRecord(call[p].deployment_id)

\* C12: a cleanup at level NA, the level of status completed, only returns:
\* it runs no script, removes no working directory and leaves the state file
\* as it was, whatever the deployment's record says.
C12_NotApplicableChangesNothing ==
    /\ cleanup_level(COMPLETED) = NA
    /\ \A p \in Procs :
        (call[p].op = "cleanup" /\ call[p].cleanup_level = NA) =>
            /\ pc[p] \in {"cleanup_with_cleanup_level", "return_not_applicable"}
            /\ hist[p].invoked = << >>
            /\ hist[p].writes = 0
            /\ ~hist[p].removed
            /\ dirs = hist[p].before.dirs
            /\ state_file = hist[p].before.state_file

\* C12 witness: a cleanup at level NA about to return for a deployment whose
\* directory exists and whose record is at a failed stage.
C12_Witness ==
    \E p \in Procs :
        /\ call[p].op = "cleanup"
        /\ pc[p] = "return_not_applicable"
        /\ call[p].deployment_id \in dirs
        /\ HasRecord(call[p].deployment_id)
        /\ Records(call[p].deployment_id)[1].status = PRE_DEPLOYMENT_OPERATIONS_FAILED

\* The payload the identity is said to be the hash of: the contents of the
\* file when the kubeconfig is the path of an existing file, else the string.
hashed_payload(kubeconfig) ==
    IF isfile(kubeconfig) THEN KubeconfigFiles[kubeconfig] ELSE kubeconfig

\* C13: start obtains from generate_deployment_id the hash of the file's
\* contents when the kubeconfig is the path of an existing file and the hash
\* of the string otherwise, no exception is raised, and start goes on with
\* that identity.
C13_IdentityIsHashOfPayload ==
    \A p \in Procs :
        /\ pc[p] = "generate_deployment_id" =>
            LET gen == generate_deployment_id(call[p].kubeconfig)
            IN  /\ gen.exc = None
                /\ gen.value = md5(hashed_payload(call[p].kubeconfig))
        /\ (call[p].op = "start" /\ pc[p] # "generate_deployment_id") =>
                call[p].deployment_id = md5(hashed_payload(call[p].kubeconfig))

\* The ways the persisted state can be corrupt: two records for one identity;
\* with no operation in progress, a working directory without a record or a
\* record without a working directory; a start about to return a status that
\* the record of its deployment does not have.
Duplicated == \E deployment_id \in DeploymentIds : Len(Records(deployment_id)) > 1

Orphaned ==
    /\ AllIdle
    /\ \E deployment_id \in DeploymentIds :
            deployment_id \in dirs <=> ~HasRecord(deployment_id)

LostUpdate ==
    \E p \in Procs :
        /\ call[p].op = "start"
        /\ Returning(p)
        /\ \/ ~HasRecord(call[p].deployment_id)
           \/ \E r \in Range(Records(call[p].deployment_id)) :
                    r.status # ReturnValue(p).deployment_status

Corrupt == Duplicated \/ Orphaned \/ LostUpdate

\* C14: the operations take no lock, so two invocations on one identity whose
\* steps interleave can leave the persisted state corrupt; and the persisted
\* state is corrupt only after an invocation began while another was in
\* progress.
C14_CorruptOnlyAfterRace == Corrupt => raced

\* C14 witness: both invocations have returned, and the state file holds two
\* records for the identity they worked on.
C14_Witness ==
    /\ AllIdle
    /\ raced
    /\ Duplicated

\* Further corrupt states two racing invocations reach.
C14_OrphanReached == raced /\ Orphaned /\ ~Duplicated

C14_LostUpdateReached == raced /\ LostUpdate /\ ~Duplicated

\* The status of each fatal script's stage while the script runs, and after
\* it succeeded.
InProgressVariant ==
    ("pre-requirements-kubernetes.sh" :> PRE_REQ_CHECK_IN_PROGRESS)
    @@ ("configuration-questions.sh" :> PRE_DEPLOYMENT_OPERATIONS_IN_PROGRESS)
    @@ ("download-syntho-charts-release.sh" :> PRE_DEPLOYMENT_OPERATIONS_IN_PROGRESS)
    @@ ("major-pre-deployment-operations.sh" :> PRE_DEPLOYMENT_OPERATIONS_IN_PROGRESS)
    @@ ("deploy-ray-and-syntho-stack.sh" :> SYNTHO_UI_DEPLOYMENT_IN_PROGRESS)

SucceededVariant ==
    ("pre-requirements-kubernetes.sh" :> PRE_REQ_CHECK_SUCCEEDED)
    @@ ("configuration-questions.sh" :> PRE_DEPLOYMENT_OPERATIONS_SUCCEEDED)
    @@ ("download-syntho-charts-release.sh" :> PRE_DEPLOYMENT_OPERATIONS_SUCCEEDED)
    @@ ("major-pre-deployment-operations.sh" :> PRE_DEPLOYMENT_OPERATIONS_SUCCEEDED)
    @@ ("deploy-ray-and-syntho-stack.sh" :> SYNTHO_UI_DEPLOYMENT_SUCCEEDED)

\* p is about to invoke a fatal script.
AboutToRun(p) ==
    /\ call[p].op = "start"
    /\ KindAt(pc[p]) = "run_script"
    /\ Program[pc[p]].script \in FatalScripts

\* The call of a fatal script has just returned to p: p is at the instruction
\* that follows the call.
JustRan(p) ==
    /\ call[p].op = "start"
    /\ hist[p].last_run.script \in FatalScripts
    /\ \E l \in DOMAIN Program :
        /\ Program[l].kind = "run_script"
        /\ Program[l].script = hist[p].last_run.script
        /\ pc[p] = IF hist[p].last_run.succeeded THEN Program[l].next
                                                 ELSE Program[l].fail

\* C15: when start is about to invoke a fatal script the record has the
\* in-progress status of the script's stage, and when the script has returned
\* the next thing start does is to persist the succeeded or the failed status
\* of that stage.
C15_StageStatusAroundEachStep ==
    \A p \in Procs :
        /\ AboutToRun(p) =>
            \A r \in Range(Records(call[p].deployment_id)) :
                r.status = InProgressVariant[Program[pc[p]].script]
        /\ JustRan(p) =>
            /\ KindAt(pc[p]) = "set_state"
            /\ Program[pc[p]].status =
                    IF hist[p].last_run.succeeded
                    THEN SucceededVariant[hist[p].last_run.script]
                    ELSE FailedVariant[hist[p].last_run.script]

\* The scripts of start in the order of lines 125 to 163.
StepOrder ==
    << "pre-requirements-kubernetes.sh",
       "get-k8s-cluster-context-name.sh",
       "configuration-questions.sh",
       "download-syntho-charts-release.sh",
       "major-pre-deployment-operations.sh",
       "deploy-ray-and-syntho-stack.sh" >>

\* C16: the scripts a start has invoked are the first ones of the fixed order,
\* each once; every fatal script before the last invoked one succeeded; a
\* start that created its record returns after the sixth script or after a
\* fatal script failed, never after a failed cluster-name lookup; and the
\* configuration script was invoked exactly when the pre-requirement check
\* succeeded.
C16_StepsInFixedOrder ==
    \A p \in Procs :
        call[p].op = "start" =>
            LET inv == hist[p].invoked
            IN  /\ Len(inv) <= Len(StepOrder)
                /\ \A i \in DOMAIN inv : inv[i].script = StepOrder[i]
                /\ \A i \in DOMAIN inv :
                        (i < Len(inv) /\ StepOrder[i] \in FatalScripts) => inv[i].succeeded
                /\ (Returning(p) /\ hist[p].created) =>
                        /\ inv # << >>
                        /\ IF inv[Len(inv)].succeeded
                           THEN Len(inv) = Len(StepOrder)
                           ELSE inv[Len(inv)].script \in FatalScripts
                        /\ Len(inv) >= 3 <=> inv[1].succeeded

\* C16 witness: a start about to return after all six scripts, of which the
\* cluster-name lookup failed.
C16_Witness ==
    \E p \in Procs :
        /\ call[p].op = "start"
        /\ Returning(p)
        /\ Len(hist[p].invoked) = 6
        /\ ~hist[p].invoked[2].succeeded
        /\ hist[p].invoked[6].succeeded

\* The place of a status in the order of the stages.
StageRank(status) ==
    CASE status = INITIALIZING -> 1
      [] status = PREPARING_ENV -> 2
      [] status = INITIALIZED -> 3
      [] status \in {PRE_REQ_CHECK_IN_PROGRESS, PRE_REQ_CHECK_SUCCEEDED,
                     PRE_REQ_CHECK_FAILED} -> 4
      [] status \in {PRE_DEPLOYMENT_OPERATIONS_IN_PROGRESS,
                     PRE_DEPLOYMENT_OPERATIONS_SUCCEEDED,
                     PRE_DEPLOYMENT_OPERATIONS_FAILED} -> 5
      [] status \in {RAY_CLUSTER_DEPLOYMENT_IN_PROGRESS, RAY_CLUSTER_DEPLOYMENT_SUCCEEDED,
                     RAY_CLUSTER_DEPLOYMENT_FAILED} -> 6
      [] status \in {SYNTHO_UI_DEPLOYMENT_IN_PROGRESS, SYNTHO_UI_DEPLOYMENT_SUCCEEDED,
                     SYNTHO_UI_DEPLOYMENT_FAILED} -> 7
      [] status = COMPLETED -> 8
      [] OTHER -> 0

\* Statuses after which start does nothing more to the record.
FinalStatuses == FailedStatuses \cup {COMPLETED}

C17_StatusIsLabel ==
    \A r \in Range(File.deployments) : r.status \in StatusLabels

C17_StatusMovesForward ==
    \A deployment_id \in DeploymentIds :
        (HasRecord(deployment_id) /\ HasRecord(deployment_id)') =>
            LET old == Records(deployment_id)[1].status
                new == Records(deployment_id)'[1].status
            IN  /\ StageRank(new) >= StageRank(old)
                /\ old \in FinalStatuses => new = old

\* C17: the status of a record is always one of the labels of
\* DeploymentStatus; as long as the record exists no step moves it to a label
\* of an earlier stage; and no step changes a failed or completed status.
C17_StatusNeverRegresses ==
    [](C17_StatusIsLabel) /\ [][C17_StatusMovesForward]_vars

\* C17 witness: a later start has found a record whose status is completed.
C17_Witness ==
    \E p \in Procs :
        /\ call[p].op = "start"
        /\ pc[p] = "return_existing"
        /\ Records(call[p].deployment_id)[1].status = COMPLETED

C19_DestroyTearsDownFirst ==
    \A p \in Procs :
        (/\ call[p].op = "destroy"
         /\ call[p].deployment_id \in hist[p].before.dirs) =>
            LET unchanged == /\ dirs = hist[p].before.dirs
                             /\ state_file = hist[p].before.state_file
                             /\ ~hist[p].removed
                             /\ hist[p].writes = 0
            IN  /\ call[p].cleanup_level = FULL
                /\ IF pc[p] \in {"cleanup_with_cleanup_level", "cleanup_script"}
                   THEN hist[p].invoked = << >> /\ unchanged
                   ELSE /\ Len(hist[p].invoked) = 1
                        /\ hist[p].invoked[1].script = "cleanup-kubernetes.sh"
                        /\ ~unchanged => hist[p].invoked[1].succeeded
                /\ state_file # hist[p].before.state_file =>
                        hist[p].removed /\ call[p].deployment_id \notin dirs
                /\ pc[p] = "return_cleanup_done" =>
                        /\ call[p].deployment_id \notin dirs
                        /\ ~HasRecord(call[p].deployment_id)

\* C19 witness: a destroy has removed the directory and the record of a
\* deployment whose record said initializing.
C19_Witness ==
    \E p \in Procs :
        /\ call[p].op = "destroy"
        /\ pc[p] = "return_cleanup_done"
        /\ LET was == filtered(get_deployments_state(hist[p].before.state_file),
                               call[p].deployment_id)
           IN  was # << >> /\ was[1].status = INITIALIZING

\* The records of the identities other than deployment_id, in order.
others(deployments, deployment_id) ==
    SelectSeq(deployments, LAMBDA d : d.id # deployment_id)

\* C20: while a start on identity i is in progress the records of the other
\* identities are what they were when it began, in the same order; a start
\* that created its record has appended it after them, with its id, version
\* and started_at as created, and made i the active id; a start that found a
\* record has changed nothing.
C20_StartTouchesOnlyItsRecord ==
    \A p \in Procs :
        (call[p].op = "start" /\ call[p].deployment_id # None) =>
            LET was == get_deployments_state(hist[p].before.state_file)
                i == call[p].deployment_id
            IN  IF hist[p].created
                THEN /\ Len(File.deployments) = Len(was.deployments) + 1
                     /\ SubSeq(File.deployments, 1, Len(was.deployments)) = was.deployments
                     /\ others(File.deployments, i) = was.deployments
                     /\ LET own == File.deployments[Len(File.deployments)]
                        IN  /\ own.id = i
                            /\ own.version = call[p].version
                            /\ own.started_at = loc[p].started_at
                     /\ File.active_deployment_id = i
                ELSE state_file = hist[p].before.state_file

\* C20 witness: a start that created the third record is about to return
\* completed, and the active id was another one when it began.
C20_Witness ==
    \E p \in Procs :
        /\ call[p].op = "start"
        /\ pc[p] = "return_completed"
        /\ hist[p].created
        /\ Len(File.deployments) = 3
        /\ hist[p].before.state_file.content.active_deployment_id
                \notin {None, call[p].deployment_id}

\* C20 witness of the other case: a start that found a record, while another
\* identity is the active one.
C20_ExistingReached ==
    \E p \in Procs :
        /\ call[p].op = "start"
        /\ pc[p] = "return_existing"
        /\ File.active_deployment_id # call[p].deployment_id

====
